---- MODULE Spec2Model ----
(***************************************************************************)
(* Scenario-run orchestration of the urbs run scripts Village.py,          *)
(* Kpori.py, runme_dummy.py and runme_WT_EWF.py: the scenario transforms,  *)
(* setup_solver, run_scenario and the scenario loop of __main__.           *)
(*                                                                         *)
(* Strings that the code formats or parses are sequences of tokens; the    *)
(* token "{}" is a replacement field and the token "=" the equals sign.    *)
(* A Python range(a, b) is the record [start |-> a, stop |-> b].           *)
(***************************************************************************)
EXTENDS Integers, Sequences, FiniteSets, TLC

VARIABLES script, input, plot_periods, scenarios, i, pc, data, model, prob,
          result, optim, stdout, trace, failed, started, handed, artifacts,
          logfile, ret, result_dir, fs, clock, calls, COLORS, defaults

vars == <<script, input, plot_periods, scenarios, i, pc, data, model, prob,
          result, optim, stdout, trace, failed, started, handed, artifacts,
          logfile, ret, result_dir, fs, clock, calls, COLORS, defaults>>

(***************************************************************************)
(* Bounds of the model.                                                    *)
(***************************************************************************)
\* longest scenario list handed to the scenario loop
MaxScenarios == 2
\* number of timesteps in a caller-chosen plot window
WindowLen == 2
\* distance of a caller-chosen far window from the end of the horizon
WindowGap == 1
\* first and last second of the clock when result directories are prepared
ClockStart == 58
MaxClock == 61
\* number of prepare_result_directory calls followed
MaxCalls == 2

(***************************************************************************)
(* The run scripts and their configuration.                                *)
(***************************************************************************)
ScriptNames == {"Village", "Kpori", "runme_dummy", "runme_WT_EWF"}

Range(a, b) == [start |-> a, stop |-> b]

RangeSet(r) == {t \in r.start .. (r.stop - 1) : TRUE}

offset(s) == 0

length(s) == IF s = "runme_dummy" THEN 100 ELSE 8760

timesteps(s) == Range(offset(s), offset(s) + length(s) + 1)

Site(s) == IF s \in {"Village", "Kpori"} THEN "Village" ELSE "StRupertMayer"

ScriptPeriods(s) ==
  CASE s = "Village" ->
         [w \in {"all", "Jan", "Jan2", "Feb", "March", "April", "June", "July",
                 "August", "September", "October", "December"} |->
            CASE w = "all" -> Range(timesteps(s).start + 1, timesteps(s).stop)
              [] w = "Jan" -> Range(1, 168)
              [] w = "Jan2" -> Range(169, 336)
              [] w = "Feb" -> Range(721, 888)
              [] w = "March" -> Range(1441, 1608)
              [] w = "April" -> Range(2161, 2328)
              [] w = "June" -> Range(3600, 3768)
              [] w = "July" -> Range(4321, 4488)
              [] w = "August" -> Range(5041, 5208)
              [] w = "September" -> Range(5761, 5928)
              [] w = "October" -> Range(6481, 6648)
              [] w = "December" -> Range(8593, 8760)]
    [] s = "Kpori" ->
         [w \in {"January", "September", "all_1", "all_2"} |->
            CASE w = "January" -> Range(1, 336)
              [] w = "September" -> Range(5761, 6096)
              [] w = "all_1" -> Range(1, 4320)
              [] w = "all_2" -> Range(4321, 8760)]
    [] s = "runme_dummy" ->
         [w \in {"1_week", "1_month"} |->
            CASE w = "1_week" -> Range(1, 168)
              [] w = "1_month" -> Range(1, 672)]
    [] s = "runme_WT_EWF" ->
         [w \in {"1_week", "21_week", "45_week"} |->
            CASE w = "1_week" -> Range(1, 168)
              [] w = "21_week" -> Range(3528, 3696)
              [] w = "45_week" -> Range(7560, 7728)]

\* period maps a caller of run_scenario may pass besides the script's own:
\* two windows, each either at the start of the horizon or past its end
CallerWindows(s) ==
  {Range(1, 1 + WindowLen),
   Range(timesteps(s).stop + WindowGap, timesteps(s).stop + WindowGap + WindowLen)}

CallerPeriods(s) == [{"first", "second"} -> CallerWindows(s)]

(***************************************************************************)
(* Datasets: relation name -> (key -> (column -> value)).                  *)
(***************************************************************************)
NaN == 0 - 1

Columns(rel) == IF rel = "process" THEN {"inv-cost", "cap-up"}
                ELSE {"cap-up-c", "inst-cap-c"}

\* df.loc[key] = val: the whole row is overwritten
LocSet_row(df, rel, key, col, val) ==
  [k \in DOMAIN df \cup {key} |->
     IF k = key THEN [c \in Columns(rel) |-> val] ELSE df[k]]

\* df.loc[key, col] = val
LocSet(df, rel, key, col, val) ==
  IF key \in DOMAIN df
    THEN [df EXCEPT ![key][col] = val]
    ELSE [k \in DOMAIN df \cup {key} |->
            IF k = key
              THEN [c \in Columns(rel) |-> IF c = col THEN val ELSE NaN]
              ELSE df[k]]

Get(rel) == [op |-> "get", rel |-> rel]

Set(rel, site, entity, col, val) ==
  [op |-> "set", rel |-> rel, key |-> <<site, entity>>, col |-> col, val |-> val]

\* the statements of scenario_base in each script
scenario_base(s) ==
  CASE s = "Village" -> <<Get("storage"), Get("process")>>
    [] s = "Kpori" ->
         <<Get("storage"), Get("process"),
           Set("process", "Village", "WaterBuy to Domestic Water", "inv-cost", 0)>>
    [] s = "runme_dummy" -> << >>
    [] s = "runme_WT_EWF" ->
         <<Get("storage"),
           Set("storage", "StRupertMayer", "Biogas Storage", "cap-up-c", 0),
           Set("storage", "StRupertMayer", "Biogas Equivalent Storage", "cap-up-c", 0),
           Get("process"),
           Set("process", "StRupertMayer", "Biogas Generator", "cap-up", 0),
           Set("process", "StRupertMayer", "Biogas Digester", "cap-up", 0)>>

\* runs the statements n.. of a transform on the dict d, in place;
\* data[rel] of a relation the dict lacks raises KeyError
RECURSIVE Exec(_, _, _)
Exec(stmts, n, d) ==
  IF n > Len(stmts) THEN [ok |-> TRUE, data |-> d]
  ELSE LET st == stmts[n] IN
       IF st.rel \notin DOMAIN d THEN [ok |-> FALSE, data |-> d]
       ELSE IF st.op = "get" THEN Exec(stmts, n + 1, d)
       ELSE Exec(stmts, n + 1,
                 [d EXCEPT ![st.rel] = LocSet(d[st.rel], st.rel, st.key, st.col, st.val)])

Scenario(s, name, d) == Exec(scenario_base(s), 1, d)

Keys(d, rel) == DOMAIN d[rel]

\* keys a script's transform assigns to, per relation
EditedKeys(s, rel) ==
  {scenario_base(s)[n].key :
     n \in {m \in 1..Len(scenario_base(s)) :
              scenario_base(s)[m].op = "set" /\ scenario_base(s)[m].rel = rel}}

OtherKey(s, rel) ==
  IF rel = "process" THEN <<Site(s), "Photovoltaics">> ELSE <<Site(s), "Battery">>

BaseValue(rel, col) ==
  CASE col = "inv-cost" -> 3
    [] col = "cap-up" -> 7
    [] col = "cap-up-c" -> 5
    [] col = "inst-cap-c" -> 2

Relation(rel, keys) == [k \in keys |-> [c \in Columns(rel) |-> BaseValue(rel, c)]]

\* the Datasets the input file of script s may hold
Datasets(s) ==
  {[rel \in rels |-> IF rel = "process" THEN Relation(rel, pk) ELSE Relation(rel, sk)] :
     rels \in {{"storage", "process"}, {"process"}},
     pk \in SUBSET (EditedKeys(s, "process") \cup {OtherKey(s, "process")}),
     sk \in SUBSET (EditedKeys(s, "storage") \cup {OtherKey(s, "storage")})}

NoData == [rel \in {} |-> 0]

(***************************************************************************)
(* Strings as token sequences.                                             *)
(***************************************************************************)
\* os.path.join(a, b)
Join(a, b) == a \o <<"/">> \o b

RECURSIVE Fields(_)
\* number of replacement fields of a format string
Fields(template) ==
  IF template = << >> THEN 0
  ELSE (IF Head(template) = "{}" THEN 1 ELSE 0) + Fields(Tail(template))

RECURSIVE FormatArgs(_, _, _)
\* template.format(*args) from the k-th argument on: each "{}" takes the
\* next argument, "{{" and "}}" are the escaped braces
FormatArgs(template, args, k) ==
  IF template = << >> THEN << >>
  ELSE IF Head(template) = "{}"
    THEN (IF k <= Len(args) THEN args[k] ELSE << >>)
         \o FormatArgs(Tail(template), args, k + 1)
  ELSE IF Head(template) = "{{" THEN <<"{">> \o FormatArgs(Tail(template), args, k)
  ELSE IF Head(template) = "}}" THEN <<"}">> \o FormatArgs(Tail(template), args, k)
  ELSE <<Head(template)>> \o FormatArgs(Tail(template), args, k)

\* template.format(*args) raises IndexError when it has more fields than
\* arguments
FormatRaises(template, args) == Fields(template) > Len(args)

\* template.format(arg) with one positional argument
Format(template, arg) == FormatArgs(template, <<arg>>, 1)

(***************************************************************************)
(* setup_solver and the solver object it configures.                       *)
(***************************************************************************)
RECURSIVE Find(_, _, _)
\* index of the first token tok in s at or after n, 0 when there is none
Find(s, tok, n) ==
  IF n > Len(s) THEN 0
  ELSE IF s[n] = tok THEN n
  ELSE Find(s, tok, n + 1)

\* optim.set_options("name=value"): the text before the first "=" names the
\* option, the text after it is its value
set_options(opt, istr) ==
  LET index == Find(istr, "=", 1)
      key == SubSeq(istr, 1, index - 1)
      val == SubSeq(istr, index + 1, Len(istr))
  IN [opt EXCEPT !.options =
        [k \in DOMAIN opt.options \cup {key} |->
           IF k = key THEN val ELSE opt.options[k]]]

Warning(name) ==
  <<"Warning from setup_solver: no options set for solver '", name, "'!">>

\* setup_solver whose last branch configures the solver like glpk
setup_solver_fallthrough(opt, log) ==
  IF opt.name = "gurobi"
    THEN [optim |-> set_options(opt, Format(<<"logfile", "=", "{}">>, log)),
          out |-> << >>]
  ELSE [optim |-> set_options(opt, Format(<<"log", "=", "{}">>, log)),
        out |-> << >>]

\* setup_solver with the time limit of gurobi switched on
setup_solver_timelimit(opt, log) ==
  IF opt.name = "gurobi"
    THEN [optim |-> set_options(
                      set_options(opt, Format(<<"logfile", "=", "{}">>, log)),
                      <<"timelimit", "=", "7200">>),
          out |-> << >>]
  ELSE IF opt.name = "glpk"
    THEN [optim |-> set_options(opt, Format(<<"log", "=", "{}">>, log)),
          out |-> << >>]
  ELSE [optim |-> opt, out |-> <<Warning(opt.name)>>]

\* returns the solver object and the lines printed
setup_solver(opt, log) ==
  IF opt.name = "gurobi"
    THEN [optim |-> set_options(opt, Format(<<"logfile", "=", "{}">>, log)),
          out |-> << >>]
  ELSE IF opt.name = "glpk"
    THEN [optim |-> set_options(opt, Format(<<"log", "=", "{}">>, log)),
          out |-> << >>]
  ELSE [optim |-> opt, out |-> <<Warning(opt.name)>>]

NoOptions == [k \in {} |-> << >>]

\* SolverFactory(name, ...)
SolverFactory(name) == [name |-> name, options |-> NoOptions]

(***************************************************************************)
(* run_scenario and the scenario loop of __main__.                         *)
(*                                                                         *)
(* pc is the position of the process: "Init" at the top of the scenario    *)
(* loop, then the state the run of scenario i has reached, "Done" once     *)
(* the loop has ended and "Errored" once an exception has left             *)
(* run_scenario, which nothing catches.                                    *)
(***************************************************************************)
Status == {"optimal", "infeasible", "unbounded", "error", "timeout"}

NoModel == [sce |-> "", built |-> FALSE, values |-> FALSE, data |-> NoData]

NoResult == "none"

\* input_file of each script
input_file(s) ==
  CASE s = "Village" -> <<"Village", ".xlsx">>
    [] s = "Kpori" -> <<"Kpori", ".xlsx">>
    [] s = "runme_dummy" -> <<"dummy_D_PV_Bio_Field_Water_Sell", ".xlsx">>
    [] s = "runme_WT_EWF" -> <<"dummy_WT_EWF", ".xlsx">>

\* the name under which each script is copied into the result directory
script_file(s) ==
  CASE s = "Village" -> <<"Village", ".py">>
    [] s = "Kpori" -> <<"Kpori", ".py">>
    [] s = "runme_dummy" -> <<"runme_dummy", ".py">>
    [] s = "runme_WT_EWF" -> <<"runme_WT_EWF", ".py">>

\* os.path.splitext(name)[0]
splitext(name) ==
  IF Len(name) > 1 /\ name[Len(name)] \in {".xlsx", ".py", ".log"}
    THEN SubSeq(name, 1, Len(name) - 1)
    ELSE name

SecondsPerMinute == 60

\* datetime.now().strftime('%Y%m%dT%H%M') at second t: the minute of t
strftime(t) == <<ToString(t \div SecondsPerMinute)>>

\* the directories above path
Ancestors(path) ==
  {SubSeq(path, 1, n - 1) : n \in {m \in 2..Len(path) : path[m] = "/"}}

\* os.makedirs(path): the directory and its missing parents, all empty
makedirs(files, path) ==
  [d \in DOMAIN files \cup Ancestors(path) \cup {path} |->
     IF d \in DOMAIN files THEN files[d] ELSE {}]

\* prepare_result_directory that empties a directory it finds
prepare_result_directory_recreate(result_name, t, files) ==
  LET now == strftime(t)
      dir == Join(<<"result">>, FormatArgs(<<"{}", "-", "{}">>, <<result_name, now>>, 1))
  IN [path |-> dir,
      fs |-> [d \in DOMAIN makedirs(files, dir) |->
                IF d = dir THEN {} ELSE makedirs(files, dir)[d]]]

\* prepare_result_directory(result_name) at second t on the file system
\* files: the path returned and the file system left behind
prepare_result_directory(result_name, t, files) ==
  LET now == strftime(t)
      dir == Join(<<"result">>, FormatArgs(<<"{}", "-", "{}">>, <<result_name, now>>, 1))
  IN [path |-> dir,
      fs |-> IF dir \notin DOMAIN files THEN makedirs(files, dir) ELSE files]

NoFiles == [d \in {} |-> {}]

sce == scenarios[i]

log_template == Join(result_dir, <<"{}", ".log">>)

log_filename == Format(log_template, <<sce>>)

report_template == Join(result_dir, <<"{}", ".xlsx">>)

report_filename == Format(report_template, <<sce>>)

figure_basename == Join(result_dir, Format(<<"{}">>, <<sce>>))

Artifact(kind, window, path) ==
  [idx |-> i, kind |-> kind, window |-> window, path |-> path]

\* an exception leaves run_scenario at step
Raise(step) ==
  /\ pc' = "Errored"
  /\ failed' = step

\* my_colors of each script
my_colors(s) ==
  CASE s = "Village" ->
         [n \in {"Demand", "Diesel Generator", "Photovoltaics",
                  "WaterBuy to Domestic Water",
                  "Groundwater to Irrigation Water",
                  "Irrigation Water to Crop Water Need",
                  "Groundwater to Domestic Water", "MaizeBuy to Maize",
                  "Biogas Generator", "Anaerobic Digester", "Maize Farm",
                  "Water Pump", "EffRain to Crop Water Need",
                  "Shunt(Green Water)", "Rainwater to EffRain",
                  "Rainwater Harvesting", "Stone Stove", "Biogas Stove"} |->
            CASE n = "Demand" -> <<0, 0, 0>>
              [] n = "Diesel Generator" -> <<187, 187, 187>>
              [] n = "Photovoltaics" -> <<255, 201, 71>>
              [] n = "WaterBuy to Domestic Water" -> <<200, 221, 241>>
              [] n = "Groundwater to Irrigation Water" -> <<4, 131, 255>>
              [] n = "Irrigation Water to Crop Water Need" -> <<193, 229, 241>>
              [] n = "Groundwater to Domestic Water" -> <<152, 245, 255>>
              [] n = "MaizeBuy to Maize" -> <<205, 170, 125>>
              [] n = "Biogas Generator" -> <<82, 183, 71>>
              [] n = "Anaerobic Digester" -> <<187, 231, 2>>
              [] n = "Maize Farm" -> <<245, 222, 179>>
              [] n = "Water Pump" -> <<91, 155, 213>>
              [] n = "EffRain to Crop Water Need" -> <<155, 205, 155>>
              [] n = "Shunt(Green Water)" -> <<34, 139, 34>>
              [] n = "Rainwater to EffRain" -> <<81, 102, 45>>
              [] n = "Rainwater Harvesting" -> <<155, 205, 155>>
              [] n = "Stone Stove" -> <<153, 0, 0>>
              [] n = "Biogas Stove" -> <<153, 0, 0>>]
    [] s = "Kpori" ->
         [n \in {"Demand", "Diesel Generator", "Photovoltaics",
                  "WaterBuy to Domestic Water",
                  "Groundwater to Irrigation Water",
                  "Groundwater to Domestic Water", "MaizeBuy to Maize",
                  "Maize Farm", "Water Pump", "EffRain to Irrigation Water",
                  "Shunt(EffRain)"} |->
            CASE n = "Demand" -> <<0, 0, 0>>
              [] n = "Diesel Generator" -> <<187, 187, 187>>
              [] n = "Photovoltaics" -> <<255, 201, 71>>
              [] n = "WaterBuy to Domestic Water" -> <<200, 221, 241>>
              [] n = "Groundwater to Irrigation Water" -> <<4, 131, 255>>
              [] n = "Groundwater to Domestic Water" -> <<152, 245, 255>>
              [] n = "MaizeBuy to Maize" -> <<205, 170, 125>>
              [] n = "Maize Farm" -> <<245, 222, 179>>
              [] n = "Water Pump" -> <<91, 155, 213>>
              [] n = "EffRain to Irrigation Water" -> <<155, 205, 155>>
              [] n = "Shunt(EffRain)" -> <<34, 139, 34>>]
    [] s = "runme_dummy" ->
         [n \in {"Demand", "Diesel Generator", "Photovoltaics",
                  "Biogas Generator", "Biomass Digester", "Tomato Field",
                  "Water Pump", "Feed-in Tomato"} |->
            CASE n = "Demand" -> <<0, 0, 0>>
              [] n = "Diesel Generator" -> <<89, 89, 89>>
              [] n = "Photovoltaics" -> <<255, 201, 71>>
              [] n = "Biogas Generator" -> <<172, 233, 110>>
              [] n = "Biomass Digester" -> <<54, 93, 14>>
              [] n = "Tomato Field" -> <<213, 91, 94>>
              [] n = "Water Pump" -> <<91, 155, 213>>
              [] n = "Feed-in Tomato" -> <<101, 26, 28>>]
    [] s = "runme_WT_EWF" ->
         [n \in {"Demand", "Diesel Generator", "Photovoltaics",
                  "WaterBuy to Water", "Water to Irrigation Water",
                  "WheatBuy to Wheat", "Biogas Generator", "Biogas Digester",
                  "Wheat Field", "Water Pump", "Shunt(Biogas Equivalent)",
                  "Wheat to WheatSell", "Wheat Waste to Biogas Equivalent",
                  "Wheat to Biogas Equivalent", "Tomato Field",
                  "Tomato Waste to Biogas Equivalent", "TomatoBuy to Tomato",
                  "Tomato to TomatoSell"} |->
            CASE n = "Demand" -> <<0, 0, 0>>
              [] n = "Diesel Generator" -> <<89, 89, 89>>
              [] n = "Photovoltaics" -> <<255, 201, 71>>
              [] n = "WaterBuy to Water" -> <<200, 221, 241>>
              [] n = "Water to Irrigation Water" -> <<130, 156, 200>>
              [] n = "WheatBuy to Wheat" -> <<208, 185, 148>>
              [] n = "Biogas Generator" -> <<172, 233, 110>>
              [] n = "Biogas Digester" -> <<54, 93, 14>>
              [] n = "Wheat Field" -> <<184, 151, 95>>
              [] n = "Water Pump" -> <<91, 155, 213>>
              [] n = "Shunt(Biogas Equivalent)" -> <<95, 66, 55>>
              [] n = "Wheat to WheatSell" -> <<140, 111, 62>>
              [] n = "Wheat Waste to Biogas Equivalent" -> <<182, 144, 130>>
              [] n = "Wheat to Biogas Equivalent" -> <<187, 77, 0>>
              [] n = "Tomato Field" -> <<213, 91, 94>>
              [] n = "Tomato Waste to Biogas Equivalent" -> <<130, 105, 75>>
              [] n = "TomatoBuy to Tomato" -> <<229, 152, 154>>
              [] n = "Tomato to TomatoSell" -> <<121, 31, 34>>]

\* urbs.COLORS as the script finds it when it starts
DefaultPalettes ==
  {[n \in {} |-> <<0, 0, 0>>],
   [n \in {"Demand", "Photovoltaics", "Biomass"} |->
      CASE n = "Demand" -> <<25, 25, 25>>
        [] n = "Photovoltaics" -> <<243, 174, 0>>
        [] n = "Biomass" -> <<0, 122, 55>>]}

\* for country, color in overlay.items(): registry[country] = color
Overlay(registry, overlay) ==
  [n \in DOMAIN registry \cup DOMAIN overlay |->
     IF n \in DOMAIN overlay THEN overlay[n] ELSE registry[n]]

\* a file written into a directory of the file system
WriteFile(files, dir, name) ==
  IF dir \in DOMAIN files THEN [files EXCEPT ![dir] = @ \cup {name}] ELSE files

\* result_dir = prepare_result_directory(os.path.splitext(input_file)[0])
PrepareResultDirectory ==
  /\ pc = "Start"
  /\ LET r == prepare_result_directory(splitext(input_file(script)), clock, fs) IN
       /\ result_dir' = r.path
       /\ fs' = r.fs
       /\ calls' = Append(calls, [name |-> splitext(input_file(script)),
                                  t |-> clock, path |-> r.path])
  /\ pc' = "Prepared"
  /\ UNCHANGED <<script, input, plot_periods, scenarios, i, data, model, prob,
                 result, optim, stdout, trace, failed, started, handed,
                 artifacts, logfile, ret, clock, COLORS, defaults>>

\* the archive copies made before the result directory is prepared
Archive_early ==
  /\ pc = "Start"
  /\ artifacts' = artifacts \cup
       {[idx |-> 0, kind |-> "input", window |-> "",
         path |-> Join(result_dir, input_file(script))],
        [idx |-> 0, kind |-> "script", window |-> "",
         path |-> Join(result_dir, script_file(script))]}
  /\ fs' = fs
  /\ pc' = "Archived"
  /\ UNCHANGED <<script, input, plot_periods, scenarios, i, data, model, prob,
                 result, optim, stdout, trace, failed, started, handed,
                 logfile, ret, result_dir, clock, calls, COLORS, defaults>>

\* shutil.copyfile(input_file, os.path.join(result_dir, input_file))
\* shutil.copyfile(__file__, os.path.join(result_dir, <script name>))
Archive ==
  /\ pc = "Prepared"
  /\ artifacts' = artifacts \cup
       {[idx |-> 0, kind |-> "input", window |-> "",
         path |-> Join(result_dir, input_file(script))],
        [idx |-> 0, kind |-> "script", window |-> "",
         path |-> Join(result_dir, script_file(script))]}
  /\ fs' = WriteFile(WriteFile(fs, result_dir, input_file(script)),
                     result_dir, script_file(script))
  /\ pc' = "Archived"
  /\ UNCHANGED <<script, input, plot_periods, scenarios, i, data, model, prob,
                 result, optim, stdout, trace, failed, started, handed,
                 logfile, ret, result_dir, clock, calls, COLORS, defaults>>

\* for country, color in my_colors.items(): urbs.COLORS[country] = color
OverlayColors ==
  /\ pc = "Archived"
  /\ COLORS' = Overlay(COLORS, my_colors(script))
  /\ pc' = "Init"
  /\ UNCHANGED <<script, input, plot_periods, scenarios, i, data, model, prob,
                 result, optim, stdout, trace, failed, started, handed,
                 artifacts, logfile, ret, result_dir, fs, clock, calls, defaults>>

\* run_scenario that reads the input file once and keeps the Dataset
Load_reuse ==
  /\ pc = "Init"
  /\ i <= Len(scenarios)
  /\ started' = started \cup {i}
  /\ trace' = <<"load">>
  /\ \E ok \in BOOLEAN :
       IF ok THEN /\ data' = IF prob.built THEN prob.data ELSE input
                  /\ pc' = "Loaded"
                  /\ UNCHANGED failed
             ELSE /\ Raise("load")
                  /\ UNCHANGED data
  /\ UNCHANGED <<script, input, plot_periods, scenarios, i, model, prob,
                 result, optim, stdout, handed, artifacts, logfile, ret,
                 result_dir, fs, clock, calls, COLORS, defaults>>

\* data = urbs.read_excel(input_file)
Load ==
  /\ pc = "Init"
  /\ i <= Len(scenarios)
  /\ started' = started \cup {i}
  /\ trace' = <<"load">>
  /\ \E ok \in BOOLEAN :
       IF ok THEN /\ data' = input
                  /\ pc' = "Loaded"
                  /\ UNCHANGED failed
             ELSE /\ Raise("load")
                  /\ UNCHANGED data
  /\ UNCHANGED <<script, input, plot_periods, scenarios, i, model, prob,
                 result, optim, stdout, handed, artifacts, logfile, ret,
                 result_dir, fs, clock, calls, COLORS, defaults>>

\* data = scenario(data)
ApplyScenario ==
  /\ pc = "Loaded"
  /\ trace' = Append(trace, "scenario")
  /\ LET r == Scenario(script, sce, data) IN
       IF r.ok THEN /\ data' = r.data
                    /\ pc' = "ScenarioApplied"
                    /\ UNCHANGED failed
               ELSE /\ Raise("scenario")
                    /\ data' = r.data
  /\ UNCHANGED <<script, input, plot_periods, scenarios, i, model, prob,
                 result, optim, stdout, started, handed, artifacts, logfile, ret,
                 result_dir, fs, clock, calls, COLORS, defaults>>

\* urbs.validate_input(data), in Village.py only
Validate ==
  /\ pc = "ScenarioApplied"
  /\ script = "Village"
  /\ trace' = Append(trace, "validate")
  /\ \E ok \in BOOLEAN :
       IF ok THEN /\ pc' = "Validated"
                  /\ UNCHANGED failed
             ELSE Raise("validate")
  /\ UNCHANGED <<script, input, plot_periods, scenarios, i, data, model, prob,
                 result, optim, stdout, started, handed, artifacts, logfile, ret,
                 result_dir, fs, clock, calls, COLORS, defaults>>

\* create_model whose failure is caught and the run carried on
Build_swallow ==
  /\ pc = IF script = "Village" THEN "Validated" ELSE "ScenarioApplied"
  /\ trace' = Append(trace, "build")
  /\ \E ok \in BOOLEAN :
       /\ model' = [sce |-> sce, built |-> ok, values |-> FALSE, data |-> data]
       /\ pc' = "ModelBuilt"
       /\ failed' = IF ok THEN failed ELSE "build"
  /\ UNCHANGED <<script, input, plot_periods, scenarios, i, data, prob,
                 result, optim, stdout, started, handed, artifacts, logfile, ret,
                 result_dir, fs, clock, calls, COLORS, defaults>>

\* prob = urbs.create_model(data, [dt,] timesteps)
Build ==
  /\ pc = IF script = "Village" THEN "Validated" ELSE "ScenarioApplied"
  /\ trace' = Append(trace, "build")
  /\ \E ok \in BOOLEAN :
       IF ok THEN /\ model' = [sce |-> sce, built |-> TRUE, values |-> FALSE, data |-> data]
                  /\ pc' = "ModelBuilt"
                  /\ UNCHANGED failed
             ELSE /\ Raise("build")
                  /\ UNCHANGED model
  /\ UNCHANGED <<script, input, plot_periods, scenarios, i, data, prob,
                 result, optim, stdout, started, handed, artifacts, logfile, ret,
                 result_dir, fs, clock, calls, COLORS, defaults>>

\* optim = setup_solver(SolverFactory('gurobi', ...), logfile=log_filename)
\* result = optim.solve(prob, tee=True)
\* the solver writes its log and returns a status; a run that is not
\* optimal may leave the model without values
Solve ==
  /\ pc = "ModelBuilt"
  /\ trace' = Append(trace, "solve")
  /\ IF FormatRaises(log_template, <<(<<sce>>)>>)
       THEN /\ Raise("solve")
            /\ UNCHANGED <<logfile, optim, stdout, artifacts, result, model>>
       ELSE /\ logfile' = log_filename
            /\ LET r == setup_solver(SolverFactory("gurobi"), log_filename) IN
                 /\ optim' = r.optim
                 /\ stdout' = stdout \o r.out
                 /\ artifacts' = artifacts \cup
                      {Artifact("log", "", r.optim.options[<<"logfile">>])}
            /\ \E st \in Status :
                 /\ result' = st
                 /\ \E v \in IF st = "optimal" THEN {TRUE} ELSE BOOLEAN :
                      model' = [model EXCEPT !.values = v]
            /\ pc' = "Solved"
            /\ UNCHANGED failed
  /\ UNCHANGED <<script, input, plot_periods, scenarios, i, data, prob,
                 started, handed, ret,
                 result_dir, fs, clock, calls, COLORS, defaults>>

\* the report written right after the model is built
Report_early ==
  /\ pc = "ModelBuilt"
  /\ trace' = Append(trace, "report")
  /\ artifacts' = artifacts \cup {Artifact("report", "", report_filename)}
  /\ pc' = "Reported"
  /\ UNCHANGED <<script, input, plot_periods, scenarios, i, data, model, prob,
                 result, optim, stdout, failed, started, handed, logfile, ret,
                 result_dir, fs, clock, calls, COLORS, defaults>>

\* urbs.report(prob, report_filename, ...): reads the values of the model
Report ==
  /\ pc = "Solved"
  /\ trace' = Append(trace, "report")
  /\ IF model.values /\ ~FormatRaises(report_template, <<(<<sce>>)>>)
       THEN /\ artifacts' = artifacts \cup {Artifact("report", "", report_filename)}
            /\ pc' = "Reported"
            /\ UNCHANGED failed
       ELSE /\ Raise("report")
            /\ UNCHANGED artifacts
  /\ UNCHANGED <<script, input, plot_periods, scenarios, i, data, model, prob,
                 result, optim, stdout, started, handed, logfile, ret,
                 result_dir, fs, clock, calls, COLORS, defaults>>

InHorizon(r) ==
  \A t \in RangeSet(r) :
     offset(script) <= t /\ t <= offset(script) + length(script)

Intersects(r) ==
  \E t \in RangeSet(r) :
     offset(script) <= t /\ t <= offset(script) + length(script)

Figure(w) == Artifact("plot", w, figure_basename \o <<"-", w>>)

\* urbs.result_figures(prob, figure_basename, ..., periods=plot_periods):
\* one call renders every window; the periods are handed over as they are.
\* A window with timesteps the model does not have is either rendered
\* anyway or makes the call raise after some of the figures were saved.
Plot ==
  /\ pc = "Reported"
  /\ trace' = Append(trace, "plot")
  /\ handed' = plot_periods
  /\ \/ /\ artifacts' = artifacts \cup {Figure(w) : w \in DOMAIN plot_periods}
        /\ pc' = "Plotted"
        /\ UNCHANGED failed
     \/ /\ \E w \in DOMAIN plot_periods : ~InHorizon(plot_periods[w])
        /\ \E done \in SUBSET {w \in DOMAIN plot_periods : InHorizon(plot_periods[w])} :
             artifacts' = artifacts \cup {Figure(w) : w \in done}
        /\ Raise("plot")
  /\ UNCHANGED <<script, input, plot_periods, scenarios, i, data, model, prob,
                 result, optim, stdout, started, logfile, ret,
                 result_dir, fs, clock, calls, COLORS, defaults>>

\* a run that puts the colour registry back to its defaults when it ends
Return_reset ==
  /\ pc = "Plotted"
  /\ prob' = model
  /\ i' = i + 1
  /\ pc' = IF i + 1 > Len(scenarios) THEN "Done" ELSE "Init"
  /\ data' = NoData
  /\ model' = NoModel
  /\ result' = NoResult
  /\ trace' = << >>
  /\ COLORS' = defaults
  /\ UNCHANGED <<script, input, plot_periods, scenarios, optim, stdout,
                 failed, started, handed, artifacts, logfile, ret,
                 result_dir, fs, clock, calls, defaults>>

\* return prob, and the next round of "for scenario in scenarios"
Return ==
  /\ pc = "Plotted"
  /\ prob' = model
  /\ i' = i + 1
  /\ pc' = IF i + 1 > Len(scenarios) THEN "Done" ELSE "Init"
  /\ data' = NoData
  /\ model' = NoModel
  /\ result' = NoResult
  /\ trace' = << >>
  /\ UNCHANGED <<script, input, plot_periods, scenarios, optim, stdout,
                 failed, started, handed, artifacts, logfile, ret,
                 result_dir, fs, clock, calls, COLORS, defaults>>

Init ==
  /\ script \in ScriptNames
  /\ input \in Datasets(script)
  /\ plot_periods \in {ScriptPeriods(script)} \cup CallerPeriods(script)
  /\ scenarios \in UNION {[1..n -> {"scenario_base"}] : n \in 1..MaxScenarios}
  /\ i = 1
  /\ pc = "Start"
  /\ data = NoData
  /\ model = NoModel
  /\ prob = NoModel
  /\ result = NoResult
  /\ optim = SolverFactory("gurobi")
  /\ stdout = << >>
  /\ trace = << >>
  /\ failed = "none"
  /\ started = {}
  /\ handed = [w \in {} |-> Range(0, 0)]
  /\ artifacts = {}
  /\ logfile = << >>
  /\ ret = SolverFactory("gurobi")
  /\ result_dir = << >>
  /\ fs = NoFiles
  /\ clock = 0
  /\ calls = << >>
  /\ COLORS \in DefaultPalettes
  /\ defaults = COLORS

Next ==
  \/ PrepareResultDirectory
  \/ Archive
  \/ OverlayColors
  \/ Load
  \/ ApplyScenario
  \/ Validate
  \/ Build
  \/ Solve
  \/ Report
  \/ Plot
  \/ Return

Spec == Init /\ [][Next]_vars

(***************************************************************************)
(* setup_solver on its own: any solver object, any log path.               *)
(***************************************************************************)
EngineNames == {"gurobi", "glpk", "cplex", "cbc"}

\* options a solver object may carry before setup_solver is called
PriorOptions ==
  {NoOptions,
   [k \in {<<"threads">>} |-> <<"2">>],
   [k \in {<<"logfile">>} |-> <<"old", ".log">>],
   [k \in {<<"log">>} |-> <<"old", ".log">>],
   [k \in {<<"timelimit">>, <<"mipgap">>} |-> <<"1">>]}

LogPaths ==
  {<<"solver", ".log">>,
   <<"result", "/", "Kpori", "-", "now", "/", "scenario_base", ".log">>,
   <<"result", "/", "a", "=", "b", "/", "scenario_base", ".log">>,
   <<"x", ".log">>}

CallSetupSolver ==
  /\ pc = "setup"
  /\ LET r == setup_solver(optim, logfile) IN
       /\ optim' = r.optim
       /\ ret' = r.optim
       /\ stdout' = stdout \o r.out
  /\ pc' = "returned"
  /\ UNCHANGED <<script, input, plot_periods, scenarios, i, data, model, prob,
                 result, trace, failed, started, handed, artifacts, logfile,
                 result_dir, fs, clock, calls, COLORS, defaults>>

InitSolver ==
  /\ script = "Kpori"
  /\ input = NoData
  /\ plot_periods = ScriptPeriods("Kpori")
  /\ scenarios = <<"scenario_base">>
  /\ i = 1
  /\ pc = "setup"
  /\ data = NoData
  /\ model = NoModel
  /\ prob = NoModel
  /\ result = NoResult
  /\ optim \in [name : EngineNames, options : PriorOptions]
  /\ stdout = << >>
  /\ trace = << >>
  /\ failed = "none"
  /\ started = {}
  /\ handed = [w \in {} |-> Range(0, 0)]
  /\ artifacts = {}
  /\ logfile \in LogPaths
  /\ ret = SolverFactory("gurobi")
  /\ result_dir = << >>
  /\ fs = NoFiles
  /\ clock = 0
  /\ calls = << >>
  /\ COLORS = Overlay([n \in {} |-> <<0, 0, 0>>], my_colors("Kpori"))
  /\ defaults = COLORS

NextSolver == CallSetupSolver

SpecSolver == InitSolver /\ [][NextSolver]_vars

(***************************************************************************)
(* prepare_result_directory on its own: runs of the scripts started at     *)
(* the seconds of a clock, on a file system that may hold earlier results. *)
(***************************************************************************)
\* file systems a run may find
InitialFiles ==
  {NoFiles,
   [d \in {<<"result">>} |-> {}],
   [d \in {<<"result">>, <<"result", "/", "Kpori", "-", "0">>} |->
      IF d = <<"result">> THEN {} ELSE {<<"scenario_base", ".log">>}]}

CallPrepare ==
  /\ pc = "dir"
  /\ Len(calls) < MaxCalls
  /\ \E s \in ScriptNames :
       LET r == prepare_result_directory(splitext(input_file(s)), clock, fs) IN
         /\ result_dir' = r.path
         /\ fs' = r.fs
         /\ calls' = Append(calls, [name |-> splitext(input_file(s)),
                                    t |-> clock, path |-> r.path])
  /\ UNCHANGED <<script, input, plot_periods, scenarios, i, pc, data, model,
                 prob, result, optim, stdout, trace, failed, started, handed,
                 artifacts, logfile, ret, clock, COLORS, defaults>>

\* the run that prepared the directory last copies its input file into it
CopyInput ==
  /\ pc = "dir"
  /\ calls # << >>
  /\ LET name == calls[Len(calls)].name \o <<".xlsx">> IN
       /\ name \notin fs[result_dir]
       /\ fs' = WriteFile(fs, result_dir, name)
  /\ UNCHANGED <<script, input, plot_periods, scenarios, i, pc, data, model,
                 prob, result, optim, stdout, trace, failed, started, handed,
                 artifacts, logfile, ret, result_dir, clock, calls, COLORS,
                 defaults>>

Tick ==
  /\ pc = "dir"
  /\ clock < MaxClock
  /\ clock' = clock + 1
  /\ UNCHANGED <<script, input, plot_periods, scenarios, i, pc, data, model,
                 prob, result, optim, stdout, trace, failed, started, handed,
                 artifacts, logfile, ret, result_dir, fs, calls, COLORS,
                 defaults>>

InitDir ==
  /\ script = "Kpori"
  /\ input = NoData
  /\ plot_periods = ScriptPeriods("Kpori")
  /\ scenarios = <<"scenario_base">>
  /\ i = 1
  /\ pc = "dir"
  /\ data = NoData
  /\ model = NoModel
  /\ prob = NoModel
  /\ result = NoResult
  /\ optim = SolverFactory("gurobi")
  /\ stdout = << >>
  /\ trace = << >>
  /\ failed = "none"
  /\ started = {}
  /\ handed = [w \in {} |-> Range(0, 0)]
  /\ artifacts = {}
  /\ logfile = << >>
  /\ ret = SolverFactory("gurobi")
  /\ result_dir = << >>
  /\ fs \in InitialFiles
  /\ clock = ClockStart
  /\ calls = << >>
  /\ COLORS = Overlay([n \in {} |-> <<0, 0, 0>>], my_colors("Kpori"))
  /\ defaults = COLORS

NextDir ==
  \/ CallPrepare
  \/ CopyInput
  \/ Tick

SpecDir == InitDir /\ [][NextDir]_vars

(***************************************************************************)
(* The file names of run_scenario on their own: any result directory, any  *)
(* scenario names.                                                         *)
(***************************************************************************)
\* names of scenario functions
ScenarioNames == {"scenario_base", "scenario_stock_prices", "scenario_co2_limit"}

\* result directories a caller may pass to run_scenario
CallerDirs ==
  {<<"result", "/", "Kpori", "-", "0">>,
   <<"result", "/", "Village", "-", "1">>,
   <<"out">>,
   <<"result", "/", "{}", "-", "0">>,
   <<"result", "/", "run", "{{", "1", "}}", "-", "0">>}

\* the log and report file names of scenario i, as run_scenario derives them
DerivePaths ==
  /\ pc = "paths"
  /\ i <= Len(scenarios)
  /\ IF FormatRaises(log_template, <<(<<sce>>)>>)
       THEN /\ Raise("solve")
            /\ UNCHANGED <<artifacts, logfile, i>>
       ELSE /\ logfile' = log_filename
            /\ artifacts' = artifacts \cup
                 {Artifact("log", "", log_filename),
                  Artifact("report", "", report_filename)}
            /\ i' = i + 1
            /\ UNCHANGED <<pc, failed>>
  /\ UNCHANGED <<script, input, plot_periods, scenarios, data, model, prob,
                 result, optim, stdout, trace, started, handed, ret,
                 result_dir, fs, clock, calls, COLORS, defaults>>

InitPaths ==
  /\ script = "Kpori"
  /\ input = NoData
  /\ plot_periods = ScriptPeriods("Kpori")
  /\ scenarios \in UNION {[1..n -> ScenarioNames] : n \in 1..MaxScenarios}
  /\ i = 1
  /\ pc = "paths"
  /\ data = NoData
  /\ model = NoModel
  /\ prob = NoModel
  /\ result = NoResult
  /\ optim = SolverFactory("gurobi")
  /\ stdout = << >>
  /\ trace = << >>
  /\ failed = "none"
  /\ started = {}
  /\ handed = [w \in {} |-> Range(0, 0)]
  /\ artifacts = {}
  /\ logfile = << >>
  /\ ret = SolverFactory("gurobi")
  /\ result_dir \in CallerDirs
  /\ fs = NoFiles
  /\ clock = 0
  /\ calls = << >>
  /\ COLORS = Overlay([n \in {} |-> <<0, 0, 0>>], my_colors("Kpori"))
  /\ defaults = COLORS

NextPaths == DerivePaths

SpecPaths == InitPaths /\ [][NextPaths]_vars

(***************************************************************************)
(* Properties.                                                             *)
(***************************************************************************)
Steps == {trace[n] : n \in 1..Len(trace)}

Terminated == pc \in {"Done", "Errored"}

\* C1: a failure of run_scenario for one scenario does not abort the batch:
\* when the process has ended, every scenario of the list has been run
C1_BatchSurvivesFailure ==
  Terminated => started = 1..Len(scenarios)

\* C2: the model builder is called only after validation of the transformed
\* Dataset has run and succeeded
C2_BuildOnlyAfterValidation ==
  \A n \in 1..Len(trace) :
     trace[n] = "build" =>
       /\ \E m \in 1..(n - 1) : trace[m] = "validate"
       /\ failed # "validate"

\* the assignments of the running transform whose key the relation lacks
MissingEdits ==
  {n \in 1..Len(scenario_base(script)) :
     /\ scenario_base(script)[n].op = "set"
     /\ scenario_base(script)[n].rel \in DOMAIN input
     /\ scenario_base(script)[n].key \notin Keys(input, scenario_base(script)[n].rel)}

\* C3: a transform that assigns to a key its relation lacks fails with an
\* error, and the relation gains no row
C3_MissingKeyFails ==
  ("scenario" \in Steps /\ MissingEdits # {}) =>
     /\ failed = "scenario"
     /\ \A rel \in DOMAIN input : Keys(data, rel) = Keys(input, rel)

\* C4: the Dataset a transform returns has the relations of its argument
\* and, in every relation, exactly the keys of its argument
C4_KeysPreserved ==
  pc = "ScenarioApplied" =>
     /\ DOMAIN data = DOMAIN input
     /\ \A rel \in DOMAIN input : Keys(data, rel) = Keys(input, rel)

LaterSteps == {"solve", "report", "plot"}

\* C5: after the load, transform, validation or build step of a scenario
\* has failed, that scenario has no solver call, no report and no plot
C5_NoStepAfterFailure ==
  failed \in {"load", "scenario", "validate", "build"} =>
     /\ Steps \cap LaterSteps = {}
     /\ trace[Len(trace)] = failed
     /\ \A a \in artifacts : a.idx # i

C5_Witness ==
  /\ failed = "build"
  /\ pc = "Errored"
  /\ i = 2
  /\ \E a \in artifacts : a.idx = 1 /\ a.kind = "plot"

\* C6: a solver status other than optimal is no crash: the run of that
\* scenario does not raise out of run_scenario
C6_NonOptimalIsNoCrash ==
  (result \in Status /\ result # "optimal") => pc # "Errored"

\* C7: every timestep of every window handed to the plot renderer lies
\* within [offset, offset+length]
C7_HandedWindowsClamped ==
  \A w \in DOMAIN handed :
     \A t \in RangeSet(handed[w]) :
        offset(script) <= t /\ t <= offset(script) + length(script)

HasFigure(w) == \E a \in artifacts : a.idx = i /\ a.kind = "plot" /\ a.window = w

\* C8: a window that does not intersect the horizon is an error of that
\* window only: it gets no figure, the run is not aborted and every other
\* window gets its figure
C8_WindowErrorIsolated ==
  "plot" \in Steps =>
     \A w \in DOMAIN plot_periods :
        ~Intersects(plot_periods[w]) =>
           /\ failed # "plot"
           /\ ~HasFigure(w)
           /\ \A v \in DOMAIN plot_periods :
                Intersects(plot_periods[v]) => HasFigure(v)

Recognized == {"gurobi", "glpk"}

\* C9: setup_solver with a solver that is neither gurobi nor glpk returns
\* the solver object with no option set and prints one warning
C9_UnknownEngineWarns ==
  [][(pc = "setup" /\ optim.name \notin Recognized) =>
       /\ pc' = "returned"
       /\ ret' = optim
       /\ optim' = optim
       /\ Len(stdout') = Len(stdout) + 1
       /\ stdout'[Len(stdout')] = Warning(optim.name)]_vars

C9_Witness ==
  /\ pc = "returned"
  /\ ret.name = "cplex"
  /\ ret.options = NoOptions
  /\ stdout = <<Warning("cplex")>>

LogOption(name) == IF name = "gurobi" THEN <<"logfile">> ELSE <<"log">>

LimitOptions == {<<"timelimit">>, <<"tmlim">>, <<"mipgap">>}

\* C10: setup_solver with gurobi or glpk sets exactly one option, the log
\* file option of the engine, to the given log path, and sets no time
\* limit and no gap
C10_OnlyLogOptionSet ==
  [][(pc = "setup" /\ optim.name \in Recognized) =>
       /\ pc' = "returned"
       /\ ret' = optim'
       /\ optim'.name = optim.name
       /\ DOMAIN optim'.options = DOMAIN optim.options \cup {LogOption(optim.name)}
       /\ optim'.options[LogOption(optim.name)] = logfile
       /\ \A k \in DOMAIN optim.options :
            k # LogOption(optim.name) => optim'.options[k] = optim.options[k]
       /\ (DOMAIN optim'.options \cap LimitOptions) \subseteq DOMAIN optim.options
       /\ stdout' = stdout]_vars

C10_Witness ==
  /\ pc = "returned"
  /\ ret.name = "glpk"
  /\ Find(logfile, "=", 1) # 0
  /\ DOMAIN ret.options = {<<"log">>, <<"threads">>}
  /\ ret.options[<<"log">>] = logfile

Minute(t) == t \div 60

CallsNamed ==
  \A k \in 1..Len(calls) :
     /\ calls[k].path =
          <<"result", "/">> \o calls[k].name \o <<"-", ToString(Minute(calls[k].t))>>
     /\ calls[k].path \in DOMAIN fs
     /\ \A j \in 1..Len(calls) :
          (calls[j].name = calls[k].name /\ Minute(calls[j].t) = Minute(calls[k].t))
             => calls[j].path = calls[k].path

\* C11: prepare_result_directory returns result/<name>-<minute stamp> and
\* the directory exists afterwards; calls with the same name in the same
\* minute return the same path, and a call that finds the directory leaves
\* the file system as it is
C11_PrepareIdempotent ==
  /\ []CallsNamed
  /\ [][(calls' # calls /\ result_dir' \in DOMAIN fs) =>
          (fs' = fs /\ pc' = pc)]_vars

C11_Witness ==
  /\ Len(calls) = 2
  /\ calls[1].name = calls[2].name
  /\ calls[1].t < calls[2].t
  /\ calls[1].path = calls[2].path
  /\ fs[calls[2].path] # {}

\* C12: the Dataset handed to the transform of every scenario of a batch is
\* the Dataset of the input file, whatever earlier transforms edited
C12_FreshBaseline ==
  pc = "Loaded" => data = input

C12_Witness ==
  /\ pc = "Loaded"
  /\ i = 2
  /\ prob.built
  /\ prob.data # input
  /\ data = input

\* the cells a transform of script s assigns to
Targets(s) ==
  {<<scenario_base(s)[n].rel, scenario_base(s)[n].key, scenario_base(s)[n].col>> :
     n \in {m \in 1..Len(scenario_base(s)) : scenario_base(s)[m].op = "set"}}

\* C13: a transform that assigns 0 to cells of existing keys changes these
\* cells only: every other cell of every relation is as it was
C13_OnlyAssignedCellsChange ==
  (pc = "ScenarioApplied" /\ MissingEdits = {}) =>
     /\ DOMAIN data = DOMAIN input
     /\ \A rel \in DOMAIN input :
          /\ Keys(data, rel) = Keys(input, rel)
          /\ \A k \in Keys(input, rel) : \A c \in Columns(rel) :
               data[rel][k][c] =
                 IF <<rel, k, c>> \in Targets(script) THEN 0 ELSE input[rel][k][c]

C13_Witness ==
  /\ script = "Kpori"
  /\ pc = "ScenarioApplied"
  /\ Keys(input, "process") =
       {<<"Village", "WaterBuy to Domestic Water">>, <<"Village", "Photovoltaics">>}
  /\ input["process"][<<"Village", "WaterBuy to Domestic Water">>]["inv-cost"] = 3
  /\ data["process"][<<"Village", "WaterBuy to Domestic Water">>]["inv-cost"] = 0
  /\ data["process"][<<"Village", "WaterBuy to Domestic Water">>]["cap-up"] = 7

\* the steps of one run of run_scenario, in the order of the code
Order(s) ==
  <<"load", "scenario">> \o (IF s = "Village" THEN <<"validate">> ELSE << >>)
     \o <<"build", "solve", "report", "plot">>

HasArtifact(k, kind) == \E a \in artifacts : a.idx = k /\ a.kind = kind

InOrder ==
  /\ Len(trace) <= Len(Order(script))
  /\ trace = SubSeq(Order(script), 1, Len(trace))
  /\ HasArtifact(i, "report") => (result \in Status /\ "solve" \in Steps)
  /\ HasArtifact(i, "plot") => HasArtifact(i, "report")
  /\ prob.built =>
       /\ i > 1
       /\ \A w \in DOMAIN plot_periods :
            \E a \in artifacts : a.idx = i - 1 /\ a.kind = "plot" /\ a.window = w

\* C14: a run takes the steps load, scenario, (validate,) build, solve,
\* report, plot in this order and each at most once, returns the model only
\* after the plots, and takes no step once it is Errored
C14_StepsInOrder ==
  /\ []InOrder
  /\ [][pc # "Errored"]_vars

C14_Witness ==
  /\ script = "Village"
  /\ pc = "Plotted"
  /\ i = 2
  /\ trace = Order("Village")
  /\ prob.built

Overlaid == pc \notin {"Start", "Prepared", "Archived"}

\* C15: once the overlay is applied, every overlaid name has its overlay
\* colour and every other name its default, through all scenario runs
C15_RegistryKept ==
  Overlaid =>
     /\ DOMAIN COLORS = DOMAIN defaults \cup DOMAIN my_colors(script)
     /\ \A n \in DOMAIN my_colors(script) : COLORS[n] = my_colors(script)[n]
     /\ \A n \in DOMAIN defaults \ DOMAIN my_colors(script) : COLORS[n] = defaults[n]

C15_Witness ==
  /\ pc = "Done"
  /\ i > 2
  /\ script = "runme_dummy"
  /\ "Photovoltaics" \in DOMAIN defaults
  /\ defaults["Photovoltaics"] # COLORS["Photovoltaics"]
  /\ COLORS["Photovoltaics"] = <<255, 201, 71>>
  /\ COLORS["Biomass"] = defaults["Biomass"]

IsPrefix(a, b) == Len(a) <= Len(b) /\ SubSeq(b, 1, Len(a)) = a

\* C16: every file a run writes (the archive copies, the logs, reports and
\* plots) is written after prepare_result_directory has returned, inside
\* the directory it returned
C16_OutputsInPreparedDir ==
  \A a \in artifacts :
     /\ Len(calls) = 1
     /\ result_dir = calls[1].path
     /\ result_dir \in DOMAIN fs
     /\ IsPrefix(result_dir \o <<"/">>, a.path)

C16_Witness ==
  /\ pc = "Done"
  /\ \A kind \in {"input", "script", "log", "report", "plot"} :
       \E a \in artifacts : a.kind = kind

\* C17: the log of a scenario is <result_dir>/<name>.log and its report
\* <result_dir>/<name>.xlsx, with result_dir kept as it is, so scenarios
\* with distinct names have distinct logs and reports
C17_PathsFromName ==
  /\ pc # "Errored"
  /\ \A a \in artifacts :
       /\ a.kind = "log" => a.path = result_dir \o <<"/", scenarios[a.idx], ".log">>
       /\ a.kind = "report" => a.path = result_dir \o <<"/", scenarios[a.idx], ".xlsx">>
  /\ \A a, b \in artifacts :
       (a.kind = b.kind /\ scenarios[a.idx] # scenarios[b.idx]) => a.path # b.path

====
